---- MODULE Spec2Model ----
(***************************************************************************)
(* BaanBoard backend (src/backend/server.js): the Express handlers over    *)
(* the two Mongoose collections User and Post.  Every handler is a chain   *)
(* of awaited store operations; each store operation is atomic on one      *)
(* document, and handlers of different requests interleave between them.   *)
(* One action of the model is one store operation of one request together  *)
(* with the synchronous handler code that precedes the next await.         *)
(***************************************************************************)
EXTENDS Naturals, Integers, Sequences, FiniteSets, Bags, TLC

\* ------------------------------------------------------------------ bounds
NumUsers == 2          \* accounts present in the posting specification
MaxPosts == 1          \* posts ever created
MaxVersion == 3        \* cap of a post's __v (array writes per post)
MaxInflight == 2       \* requests being handled at the same time
NumEmails == 2         \* distinct e-mail addresses offered to /register

Users == 1..NumUsers
PostIds == 1..MaxPosts
Emails == 1..NumEmails

VARIABLES
    users,      \* collection User: id -> document
    posts,      \* collection Post: id -> document (domain = posts that exist)
    nextId,     \* number of posts ever inserted (ids are never reused)
    reqs,       \* bag of the requests being handled (between two awaits)
    resp,       \* the response sent by the last step, NoResp when it sent none
    acked,      \* post ids whose DELETE has answered 200
    toggled,    \* <<post, user>> -> parity of the like requests answered 200
    overlapped, \* pairs <<post, user>> that had two like requests in flight at once
    nComment,   \* post -> number of comment requests answered 201
    clog        \* post -> the comments in the order their requests wrote the post

vars == <<users, posts, nextId, reqs, resp, acked, toggled, overlapped, nComment, clog>>

\* ------------------------------------------------------- store primitives
Range(s) == {s[i] : i \in DOMAIN s}

\* MongoDB $push
Push(seq, x) == Append(seq, x)

AddToSetAppends(seq, x) == Append(seq, x)
\* MongoDB $addToSet
AddToSet(seq, x) == IF x \in Range(seq) THEN seq ELSE Append(seq, x)

\* MongoDB $pull
Pull(seq, x) == SelectSeq(seq, LAMBDA e : e # x)

\* Array.prototype.findIndex(id => id.toString() === userId); 0 stands for -1
FindIndex(seq, x) ==
    IF x \in Range(seq)
    THEN CHOOSE i \in DOMAIN seq : seq[i] = x /\ \A j \in 1..(i - 1) : seq[j] # x
    ELSE 0

\* Array.prototype.splice(index, 1)
Splice(seq, i) == [j \in 1..(Len(seq) - 1) |-> IF j < i THEN seq[j] ELSE seq[j + 1]]

Count(seq, x) == Cardinality({i \in DOMAIN seq : seq[i] = x})

\* ------------------------------------------------------------- documents
\* bcrypt.hash(password, 10): one-way, never the password itself
Hash(password) == <<"bcrypt", password>>

UserDoc(email, role) ==
    [fullname |-> "n", email |-> email, tel |-> "t", password |-> Hash("p"),
     role |-> role,
     myPosts |-> <<>>, likedPosts |-> <<>>, commentedPosts |-> <<>>]

NewPost(body, owner) ==
    [title |-> body.title, content |-> body.content, tag |-> body.tag,
     image |-> body.file, owner |-> owner, likes |-> <<>>, comments |-> <<>>,
     v |-> 0]

\* The part of a loaded document a handler still uses after its next await
NoDoc == [title |-> "", content |-> "", tag |-> "", image |-> "", owner |-> 0,
          likes |-> <<>>, v |-> 0]

NoBody == [title |-> "", content |-> "", tag |-> "", file |-> "", text |-> "",
           email |-> 0, fullname |-> "", tel |-> "", password |-> ""]

\* The request a handler starts with: req.user from the token, req.params.id, req.body
Request(op, actor, target, body) ==
    [op |-> op, pc |-> "start", actor |-> actor, target |-> target, body |-> body,
     doc |-> NoDoc, atomic |-> "none", late |-> target \in acked]

NoResp == [op |-> "none", actor |-> 0, target |-> 0, body |-> NoBody, owner |-> 0,
           status |-> 0, late |-> FALSE, listing |-> <<>>, likeCount |-> 0]

Answer(r, status) ==
    [NoResp EXCEPT !.op = r.op, !.actor = r.actor, !.target = r.target,
                   !.body = r.body, !.owner = r.doc.owner, !.status = status,
                   !.late = r.late]

\* The handler awaits: the request stays, at its next step
Await(r, next) ==
    /\ reqs' = (reqs (-) SetToBag({r})) (+) SetToBag({next})
    /\ resp' = NoResp

\* The handler answers: the request is over
Reply(r, answer) ==
    /\ reqs' = reqs (-) SetToBag({r})
    /\ resp' = answer

Handling == BagToSet(reqs)

\* A request that needs more than one store operation takes one of the
\* MaxInflight places
Room == BagCardinality(reqs) < MaxInflight

\* Requests that will still write an array of post p
Pending(p) ==
    BagCardinality([r \in {q \in Handling : /\ q.op \in {"like", "comment"}
                                            /\ q.pc = "save"
                                            /\ q.target = p} |-> reqs[r]])

Exists(p) == p \in DOMAIN posts

\* required: true of postSchema (an empty string fails a required String too)
ValidPost(body) == body.title # "" /\ body.content # "" /\ body.tag # ""

CanMutateOwnerOnly(actor, post) == post.owner = actor
\* post.owner.toString() !== req.user.id && req.user.role !== 'admin'  -> 403
CanMutatePost(actor, post) == post.owner = actor \/ users[actor].role = "admin"

\* The accounts of the posting specification are registered already; account 1 was
\* given the role admin in the store (no route of server.js grants it)
Init ==
    /\ users = [u \in Users |-> UserDoc(u, IF u = 1 THEN "admin" ELSE "user")]
    /\ posts = <<>>
    /\ nextId = 0
    /\ reqs = EmptyBag
    /\ resp = NoResp
    /\ acked = {}
    /\ toggled = [pu \in PostIds \X Users |-> 0]
    /\ overlapped = {}
    /\ nComment = [p \in PostIds |-> 0]
    /\ clog = [p \in PostIds |-> <<>>]

\* ---------------------------------------------------------------- inputs
\* req.body of POST /post: complete (with or without an image), or one required
\* field absent
CreateBodies ==
    {[NoBody EXCEPT !.title = "t", !.content = "t", !.tag = "t"],
     [NoBody EXCEPT !.title = "t", !.content = "t", !.tag = "t", !.file = "i"],
     [NoBody EXCEPT !.content = "t", !.tag = "t"],
     [NoBody EXCEPT !.title = "t", !.tag = "t"],
     [NoBody EXCEPT !.title = "t", !.content = "t"]}

\* req.body of PUT /post/:id: nothing, or the title alone
EditBodies == {NoBody, [NoBody EXCEPT !.title = "e"]}

\* req.body of POST /post/:id/comment
CommentBodies == {NoBody, [NoBody EXCEPT !.text = "c"]}

\* ------------------------------------------------------------ POST /post
\* Post.create({title, content, tag, image, owner}); a ValidationError is caught -> 500
CreatePost ==
    /\ \E actor \in Users, body \in CreateBodies :
         LET r == Request("create", actor, 0, body) IN
         IF ~ValidPost(body)
         THEN /\ reqs' = reqs /\ resp' = Answer(r, 500)
              /\ UNCHANGED <<posts, nextId>>
         ELSE /\ Room /\ nextId < MaxPosts
              /\ LET id == nextId + 1 IN
                 /\ posts' = [p \in DOMAIN posts \cup {id} |->
                                IF p = id THEN NewPost(body, actor) ELSE posts[p]]
                 /\ nextId' = id
                 /\ reqs' = reqs (+) SetToBag({[r EXCEPT !.pc = "record", !.target = id]})
                 /\ resp' = NoResp
    /\ UNCHANGED <<users, acked, toggled, overlapped, nComment, clog>>

\* User.findByIdAndUpdate(req.user.id, {$push: {myPosts: newPost._id}}); 201
CreateRecord(r) ==
    /\ r.op = "create" /\ r.pc = "record"
    /\ users' = [users EXCEPT ![r.actor].myPosts = Push(@, r.target)]
    /\ Reply(r, Answer(r, 201))
    /\ UNCHANGED <<posts, nextId, acked, toggled, overlapped, nComment, clog>>

\* ------------------------------------------------- DELETE /deletepost/:id
\* Post.findById, then 404 before 403
DeleteFind ==
    /\ \E actor \in Users, target \in PostIds :
         LET r == Request("delete", actor, target, NoBody)
             found == [r EXCEPT !.doc = [NoDoc EXCEPT !.owner = posts[target].owner]] IN
         IF ~Exists(target) THEN reqs' = reqs /\ resp' = Answer(r, 404)
         ELSE IF ~CanMutatePost(actor, posts[target])
         THEN reqs' = reqs /\ resp' = Answer(found, 403)
         ELSE /\ Room
              /\ reqs' = reqs (+) SetToBag({[found EXCEPT !.pc = "remove"]})
              /\ resp' = NoResp
    /\ UNCHANGED <<users, posts, nextId, acked, toggled, overlapped, nComment, clog>>

DeleteRemoveKeeps(r) ==
    /\ r.op = "delete" /\ r.pc = "remove"
    /\ Await(r, [r EXCEPT !.pc = "release"])
    /\ UNCHANGED <<users, posts, nextId, acked, toggled, overlapped, nComment, clog>>
\* Post.findByIdAndDelete(req.params.id): no error when the post is already gone
DeleteRemove(r) ==
    /\ r.op = "delete" /\ r.pc = "remove"
    /\ posts' = [p \in DOMAIN posts \ {r.target} |-> posts[p]]
    /\ Await(r, [r EXCEPT !.pc = "release"])
    /\ UNCHANGED <<users, nextId, acked, toggled, overlapped, nComment, clog>>

\* User.findByIdAndUpdate(post.owner, {$pull: {myPosts: req.params.id}}); 200
DeleteRelease(r) ==
    /\ r.op = "delete" /\ r.pc = "release"
    /\ users' = [users EXCEPT ![r.doc.owner].myPosts = Pull(@, r.target)]
    /\ Reply(r, Answer(r, 200))
    /\ acked' = acked \cup {r.target}
    /\ UNCHANGED <<posts, nextId, toggled, overlapped, nComment, clog>>

\* ------------------------------------------------------- PUT /post/:id
EditFind ==
    /\ \E actor \in Users, target \in PostIds, body \in EditBodies :
         LET r == Request("edit", actor, target, body)
             found == [r EXCEPT !.doc = [NoDoc EXCEPT !.title = posts[target].title,
                                                       !.content = posts[target].content,
                                                       !.tag = posts[target].tag,
                                                       !.image = posts[target].image,
                                                       !.owner = posts[target].owner]] IN
         IF ~Exists(target) THEN reqs' = reqs /\ resp' = Answer(r, 404)
         ELSE IF ~CanMutatePost(actor, posts[target])
         THEN reqs' = reqs /\ resp' = Answer(found, 403)
         ELSE /\ Room
              /\ reqs' = reqs (+) SetToBag({[found EXCEPT !.pc = "save"]})
              /\ resp' = NoResp
    /\ UNCHANGED <<users, posts, nextId, acked, toggled, overlapped, nComment, clog>>

\* if (title) post.title = title; ...: a path is modified when a truthy value that
\* differs from the loaded one is assigned, and save() $sets the modified paths
Modified(new, loaded) == new # "" /\ new # loaded

EditedPost(stored, body, loaded) ==
    [stored EXCEPT
        !.title = IF Modified(body.title, loaded.title) THEN body.title ELSE @,
        !.content = IF Modified(body.content, loaded.content) THEN body.content ELSE @,
        !.tag = IF Modified(body.tag, loaded.tag) THEN body.tag ELSE @,
        !.image = IF Modified(body.file, loaded.image) THEN body.file ELSE @]

\* post.save(): updateOne({_id}, {$set: modified paths}); a post deleted meanwhile
\* makes save() throw (-> 500); with nothing modified, whether save() looks the
\* document up at all depends on the Mongoose release, so both outcomes are kept
EditSave(r) ==
    /\ r.op = "edit" /\ r.pc = "save"
    /\ IF Exists(r.target)
       THEN /\ posts' = [posts EXCEPT ![r.target] = EditedPost(@, r.body, r.doc)]
            /\ Reply(r, Answer(r, 200))
       ELSE /\ posts' = posts
            /\ \E st \in IF EditedPost(r.doc, r.body, r.doc) = r.doc
                         THEN {200, 500} ELSE {500} :
                 Reply(r, Answer(r, st))
    /\ UNCHANGED <<users, nextId, acked, toggled, overlapped, nComment, clog>>

\* ------------------------------------------------- the Mongoose array save
\* post.save() of a document whose array was changed in memory.  push() is sent as
\* {$push}, filtered by _id alone; splice() marks the whole array modified and is
\* sent as {$set: likes}, filtered by _id and the loaded __v.  Both increment __v.
\* No document matched -> save() throws (VersionError / DocumentNotFoundError).
SaveOkUnversioned(r) == Exists(r.target)
SaveOk(r) ==
    /\ Exists(r.target)
    /\ r.atomic = "set" => posts[r.target].v = r.doc.v

Saved(r) ==
    CASE r.atomic = "push" ->
           [posts[r.target] EXCEPT !.likes = Push(@, r.actor), !.v = @ + 1]
      [] r.atomic = "set" ->
           [posts[r.target] EXCEPT !.likes = r.doc.likes, !.v = @ + 1]
      [] r.atomic = "pushComment" ->
           [posts[r.target] EXCEPT
               !.comments = Push(@, [text |-> r.body.text, owner |-> r.actor]),
               !.v = @ + 1]

\* --------------------------------------------------- POST /post/:id/like
InFlight(op, actor, target) ==
    \E q \in Handling : q.op = op /\ q.actor = actor /\ q.target = target

\* Post.findById; findIndex; push or splice on the loaded document
LikeFind ==
    /\ \E actor \in Users, target \in PostIds :
         LET r == Request("like", actor, target, NoBody) IN
         IF ~Exists(target)
         THEN /\ reqs' = reqs /\ resp' = Answer(r, 404)
              /\ UNCHANGED overlapped
         ELSE /\ Room
              /\ posts[target].v + Pending(target) < MaxVersion
              /\ LET likes == posts[target].likes
                     index == FindIndex(likes, actor)
                     doc == [NoDoc EXCEPT !.v = posts[target].v] IN
                 reqs' = reqs (+) SetToBag({
                    IF index = 0
                    THEN [r EXCEPT !.pc = "save", !.atomic = "push",
                                   !.doc = [doc EXCEPT !.likes = Push(likes, actor)]]
                    ELSE [r EXCEPT !.pc = "save", !.atomic = "set",
                                   !.doc = [doc EXCEPT !.likes = Splice(likes, index)]]})
              /\ resp' = NoResp
              /\ overlapped' = IF InFlight("like", actor, target)
                               THEN overlapped \cup {<<target, actor>>}
                               ELSE overlapped
    /\ UNCHANGED <<users, posts, nextId, acked, toggled, nComment, clog>>

\* await post.save()
LikeSave(r) ==
    /\ r.op = "like" /\ r.pc = "save"
    /\ IF SaveOk(r)
       THEN /\ posts' = [posts EXCEPT ![r.target] = Saved(r)]
            /\ Await(r, [r EXCEPT !.pc = "user"])
       ELSE /\ posts' = posts
            /\ Reply(r, Answer(r, 500))
    /\ UNCHANGED <<users, nextId, acked, toggled, overlapped, nComment, clog>>

\* User.findByIdAndUpdate(userId, {$addToSet | $pull: {likedPosts: postId}});
\* res.json({likeCount: post.likes.length})
LikeUser(r) ==
    /\ r.op = "like" /\ r.pc = "user"
    /\ users' = [users EXCEPT ![r.actor].likedPosts =
                    IF r.atomic = "push" THEN AddToSet(@, r.target)
                    ELSE Pull(@, r.target)]
    /\ Reply(r, [Answer(r, 200) EXCEPT !.likeCount = Len(r.doc.likes)])
    /\ toggled' = [toggled EXCEPT ![<<r.target, r.actor>>] = 1 - @]
    /\ UNCHANGED <<posts, nextId, acked, overlapped, nComment, clog>>

\* ------------------------------------------------ POST /post/:id/comment
\* Post.findById; comments.push({text, owner}); text is required: true, and save()
\* validates before it writes, so a missing text is a ValidationError -> 500
CommentFind ==
    /\ \E actor \in Users, target \in PostIds, body \in CommentBodies :
         LET r == Request("comment", actor, target, body) IN
         IF ~Exists(target) THEN reqs' = reqs /\ resp' = Answer(r, 404)
         ELSE IF body.text = "" THEN reqs' = reqs /\ resp' = Answer(r, 500)
         ELSE /\ Room
              /\ posts[target].v + Pending(target) < MaxVersion
              /\ reqs' = reqs (+) SetToBag({[r EXCEPT !.pc = "save",
                                                       !.atomic = "pushComment"]})
              /\ resp' = NoResp
    /\ UNCHANGED <<users, posts, nextId, acked, toggled, overlapped, nComment, clog>>

\* await post.save()
CommentSave(r) ==
    /\ r.op = "comment" /\ r.pc = "save"
    /\ IF SaveOk(r)
       THEN /\ posts' = [posts EXCEPT ![r.target] = Saved(r)]
            /\ Await(r, [r EXCEPT !.pc = "user"])
            /\ clog' = [clog EXCEPT ![r.target] =
                           Append(@, [text |-> r.body.text, owner |-> r.actor])]
       ELSE /\ posts' = posts
            /\ Reply(r, Answer(r, 500))
            /\ clog' = clog
    /\ UNCHANGED <<users, nextId, acked, toggled, overlapped, nComment>>

\* User.findByIdAndUpdate(userId, {$addToSet: {commentedPosts: postId}}); 201
CommentUser(r) ==
    /\ r.op = "comment" /\ r.pc = "user"
    /\ users' = [users EXCEPT ![r.actor].commentedPosts = AddToSet(@, r.target)]
    /\ Reply(r, Answer(r, 201))
    /\ nComment' = [nComment EXCEPT ![r.target] = @ + 1]
    /\ UNCHANGED <<posts, nextId, acked, toggled, overlapped, clog>>

\* ------------------------------------------------- GET /getpost, /mypost
\* posts.map(p => ({...p.toObject(), likeCount: p.likes.length}))
LikeCounts(found) == [p \in found |-> Len(posts[p].likes)]

\* Post.find(query), query.tag set when ?tag= is given
GetPost ==
    /\ \E actor \in Users, tag \in {"", "t"} :
         resp' = [Answer(Request("getpost", actor, 0, [NoBody EXCEPT !.tag = tag]), 200)
                    EXCEPT !.listing = LikeCounts({p \in DOMAIN posts :
                                          tag # "" => posts[p].tag = tag})]
    /\ UNCHANGED <<users, posts, nextId, reqs, acked, toggled, overlapped, nComment, clog>>

\* Post.find({owner: req.user.id})
MyPost ==
    /\ \E actor \in Users :
         resp' = [Answer(Request("mypost", actor, 0, NoBody), 200)
                    EXCEPT !.listing = LikeCounts({p \in DOMAIN posts :
                                          posts[p].owner = actor})]
    /\ UNCHANGED <<users, posts, nextId, reqs, acked, toggled, overlapped, nComment, clog>>

\* res.json(...) runs in the same turn of the event loop as the step that caused
\* it: the response is out before any other handler continues
Sent ==
    /\ resp # NoResp
    /\ resp' = NoResp
    /\ UNCHANGED <<users, posts, nextId, reqs, acked, toggled, overlapped, nComment, clog>>

Quiet == resp = NoResp

Next ==
    \/ Sent
    \/ Quiet /\ CreatePost
    \/ Quiet /\ DeleteFind
    \/ Quiet /\ EditFind
    \/ Quiet /\ LikeFind
    \/ Quiet /\ CommentFind
    \/ Quiet /\ GetPost
    \/ Quiet /\ MyPost
    \/ \E r \in Handling : Quiet /\ CreateRecord(r)
    \/ \E r \in Handling : Quiet /\ DeleteRemove(r)
    \/ \E r \in Handling : Quiet /\ DeleteRelease(r)
    \/ \E r \in Handling : Quiet /\ EditSave(r)
    \/ \E r \in Handling : Quiet /\ LikeSave(r)
    \/ \E r \in Handling : Quiet /\ LikeUser(r)
    \/ \E r \in Handling : Quiet /\ CommentSave(r)
    \/ \E r \in Handling : Quiet /\ CommentUser(r)

Spec == Init /\ [][Next]_vars

\* ------------------------------------------------------- POST /register
\* req.body of POST /register: complete, or without fullname, or without password
RegisterBodies ==
    UNION {{[NoBody EXCEPT !.email = e, !.fullname = "n", !.tel = "t", !.password = "p"],
            [NoBody EXCEPT !.email = e, !.tel = "t", !.password = "p"],
            [NoBody EXCEPT !.email = e, !.fullname = "n", !.tel = "t"]} : e \in Emails}

EmailTaken(email) == \E u \in DOMAIN users : users[u].email = email

\* User.findOne({email}) -> 400 "Email already exists"; bcrypt.hash(password, 10)
\* throws on a missing password (-> 500)
RegisterFind ==
    /\ \E body \in RegisterBodies :
         LET r == Request("register", 0, 0, body) IN
         IF EmailTaken(body.email) THEN reqs' = reqs /\ resp' = Answer(r, 400)
         ELSE IF body.password = "" THEN reqs' = reqs /\ resp' = Answer(r, 500)
         ELSE /\ Room
              /\ reqs' = reqs (+) SetToBag({[r EXCEPT !.pc = "create"]})
              /\ resp' = NoResp
    /\ UNCHANGED <<users, posts, nextId, acked, toggled, overlapped, nComment, clog>>

\* User.create({...}): required fields are validated, then the insert meets the
\* unique index on email (E11000); either error is caught -> 500; else 201
RegisterCreate(r) ==
    /\ r.op = "register" /\ r.pc = "create"
    /\ IF r.body.fullname = "" \/ r.body.tel = "" \/ EmailTaken(r.body.email)
       THEN /\ users' = users
            /\ Reply(r, Answer(r, 500))
       ELSE /\ users' = [u \in DOMAIN users \cup {Cardinality(DOMAIN users) + 1} |->
                           IF u \in DOMAIN users THEN users[u]
                           ELSE [UserDoc(r.body.email, "user") EXCEPT
                                    !.fullname = r.body.fullname, !.tel = r.body.tel,
                                    !.password = Hash(r.body.password)]]
            /\ Reply(r, Answer(r, 201))
    /\ UNCHANGED <<posts, nextId, acked, toggled, overlapped, nComment, clog>>

\* The registration specification starts from an empty User collection
InitReg ==
    /\ users = <<>>
    /\ posts = <<>>
    /\ nextId = 0
    /\ reqs = EmptyBag
    /\ resp = NoResp
    /\ acked = {}
    /\ toggled = [pu \in PostIds \X Users |-> 0]
    /\ overlapped = {}
    /\ nComment = [p \in PostIds |-> 0]
    /\ clog = [p \in PostIds |-> <<>>]

NextReg ==
    \/ Sent
    \/ Quiet /\ RegisterFind
    \/ \E r \in Handling : Quiet /\ RegisterCreate(r)

SpecReg == InitReg /\ [][NextReg]_vars

\* ================================================================ claims
Likes(p, u) == u \in Range(posts[p].likes)
Liked(u, p) == p \in Range(users[u].likedPosts)
At(op, pc) == \E r \in Handling : r.op = op /\ r.pc = pc

\* C1: whenever no like request is between its post write and its user write, for
\* every existing post p and user u: u is in p.likes iff p is in u.likedPosts.
C1_LikeRelationConsistent ==
    ~At("like", "user") =>
        \A p \in DOMAIN posts, u \in Users : Likes(p, u) <=> Liked(u, p)

\* the like state of a pair follows the parity of its successful toggles
C2_Parity ==
    \A p \in DOMAIN posts, u \in Users :
        (<<p, u>> \notin overlapped /\ ~InFlight("like", u, p)) =>
            IF toggled[<<p, u>>] = 1
            THEN Likes(p, u) /\ Liked(u, p)
            ELSE ~Likes(p, u) /\ ~Liked(u, p)

\* a step changes the like state of a pair only as a step of its own like request
C2_OnlyToggles ==
    \A p \in DOMAIN posts, u \in Users :
        (\/ p \in DOMAIN posts' /\ (Likes(p, u) # (u \in Range(posts'[p].likes)))
         \/ Liked(u, p) # (p \in Range(users'[u].likedPosts)))
        => InFlight("like", u, p)

\* C2: for a pair (p, u) whose like requests never overlapped and none of which is
\* in flight, p existing: after an odd number of successful toggles u is in p.likes
\* and p in u.likedPosts, after an even number neither holds; and a step changes
\* u's membership in p.likes or p's in u.likedPosts only as a step of a like
\* request of u on p.
C2_ToggleParity == []C2_Parity /\ [][C2_OnlyToggles]_vars

\* a second successful toggle (an unlike) of a pair that never overlapped has answered
C2_Witness ==
    /\ resp.op = "like" /\ resp.status = 200 /\ resp.likeCount = 0
    /\ Exists(resp.target)
    /\ <<resp.target, resp.actor>> \notin overlapped
    /\ toggled[<<resp.target, resp.actor>>] = 0

\* C3: no post's likes holds a user id twice, and the likeCount GET /getpost
\* reports is the number of distinct users who like the post.
C3_NoDuplicateLikes ==
    /\ \A p \in DOMAIN posts : Len(posts[p].likes) = Cardinality(Range(posts[p].likes))
    /\ resp.op = "getpost" =>
         \A p \in DOMAIN resp.listing :
             resp.listing[p] = Cardinality(Range(posts[p].likes))

\* C4: an existing post's comments are exactly the entries of the comment requests
\* that wrote it, in the order of their writes, one per request answered 201 or
\* about to be; and the post's id is at most once in any commentedPosts, exactly
\* once for a user whose comment requests on it have all been answered.
C4_CommentSemantics ==
    /\ \A p \in DOMAIN posts :
         /\ posts[p].comments = clog[p]
         /\ Len(posts[p].comments) =
               nComment[p] + BagCardinality([r \in {q \in Handling :
                     q.op = "comment" /\ q.pc = "user" /\ q.target = p} |-> reqs[r]])
    /\ \A p \in PostIds, u \in Users :
         /\ Count(users[u].commentedPosts, p) <= 1
         /\ ((\E i \in DOMAIN clog[p] : clog[p][i].owner = u)
             /\ ~(\E r \in Handling : r.op = "comment" /\ r.pc = "user"
                                      /\ r.actor = u /\ r.target = p))
            => Count(users[u].commentedPosts, p) = 1

\* the same user's second comment on a post has been answered 201
C4_Witness ==
    /\ resp.op = "comment" /\ resp.status = 201
    /\ Exists(resp.target)
    /\ Len(posts[resp.target].comments) >= 2
    /\ \A i \in DOMAIN posts[resp.target].comments :
           posts[resp.target].comments[i].owner = resp.actor

\* C5: whenever no create is between Post.create and its $push and no delete is
\* between its delete and its $pull, p is in u.myPosts iff p exists and p.owner = u.
C5_OwnershipIndex ==
    (~At("create", "record") /\ ~At("delete", "release")) =>
        \A u \in Users, p \in PostIds :
            (p \in Range(users[u].myPosts)) <=> (Exists(p) /\ posts[p].owner = u)

\* the answer of a PUT or DELETE that found its post
C6_Gate ==
    (resp.op \in {"edit", "delete"} /\ resp.owner # 0) =>
        /\ (resp.status = 403) <=>
              ~(resp.owner = resp.actor \/ users[resp.actor].role = "admin")
        /\ resp.status \in {200, 403, 500}
        /\ (resp.op = "delete" /\ resp.status # 403) => resp.status = 200

\* what a refusal leaves alone, and who removes or edits a post
C6_Effect ==
    /\ resp'.status = 403 => (posts' = posts /\ users' = users)
    /\ \A p \in DOMAIN posts :
         (\/ p \notin DOMAIN posts'
          \/ posts'[p].title # posts[p].title \/ posts'[p].content # posts[p].content
          \/ posts'[p].tag # posts[p].tag \/ posts'[p].image # posts[p].image)
         => \E r \in Handling :
               /\ r.op \in {"edit", "delete"} /\ r.target = p
               /\ (posts[p].owner = r.actor \/ users[r.actor].role = "admin")

\* C6: a PUT or DELETE that found its post answers 403 iff the actor is neither
\* the post's owner nor an admin; the step that answers 403 changes no post and
\* no user; and a post is removed or edited only by a step of a delete or edit
\* request whose actor is its owner or an admin.
C6_Authorization == []C6_Gate /\ [][C6_Effect]_vars

\* a user who is neither owner nor admin was refused the delete of a post
C6_Witness ==
    /\ resp.op = "delete" /\ resp.status = 403
    /\ resp.owner # resp.actor /\ users[resp.actor].role = "user"

\* a post whose delete was answered is gone for the store and for every answer
C7_Gone ==
    /\ acked \cap DOMAIN posts = {}
    /\ resp.op \in {"getpost", "mypost"} => DOMAIN resp.listing \cap acked = {}
    /\ resp.late => resp.status = 404

\* the step answering a request started after the delete's answer writes nothing
C7_NoEffect == resp'.late => (posts' = posts /\ users' = users)

\* C7: a post whose delete has answered 200 does not exist, so no GET lists it;
\* a request started after that answer and addressed to its id answers 404, with
\* no post and no user changed.
C7_DeletedIsNotFound == []C7_Gone /\ [][C7_NoEffect]_vars

\* an admin's edit of a post deleted earlier has answered 404
C7_Witness ==
    /\ resp.op = "edit" /\ resp.late /\ resp.status = 404
    /\ users[resp.actor].role = "admin"

\* C8: once no request is in flight, every id in any user's myPosts, likedPosts
\* or commentedPosts is the id of an existing post.
C8_NoDanglingReference ==
    reqs = EmptyBag =>
        \A u \in Users :
            Range(users[u].myPosts) \cup Range(users[u].likedPosts)
                \cup Range(users[u].commentedPosts) \subseteq DOMAIN posts

\* C9: a POST /post without title, content or tag answers 400.
C9_ValidationIs400 ==
    (resp.op = "create" /\ ~ValidPost(resp.body)) => resp.status = 400

\* C10: no two accounts share an e-mail, and a complete registration that fails
\* (its e-mail is held by a stored account) answers 400.
C10_DuplicateEmailIs400 ==
    /\ \A u, w \in DOMAIN users : users[u].email = users[w].email => u = w
    /\ (/\ resp.op = "register" /\ resp.status # 201
        /\ resp.body.fullname # "" /\ resp.body.tel # "" /\ resp.body.password # "")
       => resp.status = 400

\* C11: like requests of different users on the same post do not disturb each
\* other: a like request on an existing post with no comment, by a user whose own
\* like requests never overlapped, answers 200, and once none of that user's like
\* requests is in flight the user is in p.likes iff p is in the user's likedPosts
\* iff the user's successful toggles are odd in number.
C11_DifferentUsersSafe ==
    \A p \in DOMAIN posts, u \in Users :
        (<<p, u>> \notin overlapped /\ clog[p] = <<>>) =>
            /\ (resp.op = "like" /\ resp.target = p /\ resp.actor = u)
                  => resp.status = 200
            /\ ~InFlight("like", u, p) =>
                  /\ Likes(p, u) <=> Liked(u, p)
                  /\ Likes(p, u) <=> toggled[<<p, u>>] = 1
====
